---- MODULE Spec2Model ----
(***************************************************************************)
(* TopicBuilder (src/src/wia/analysis/topic_builder.py): the hybrid topic  *)
(* clustering pipeline.  One call of TopicBuilder.run is a sequence of      *)
(* steps over the builder's six configuration fields and one message       *)
(* collection: sort, time-window grouping (one step per loop iteration),   *)
(* reply linking, semantic merging (one step per anchor index), quality    *)
(* filtering and topic assembly.                                            *)
(*                                                                         *)
(* Conventions.  Python's None is the string NoneVal.  Sequences are       *)
(* 1-based, so group index k here is index k-1 in the code.  A similarity  *)
(* and semantic_threshold are in hundredths (30 is 0.3).  The media        *)
(* placeholders of the code are written in ASCII: "[image]", "[voice]",    *)
(* "[video]" and "[emoji]" stand for the four bracketed literals of        *)
(* lines 386, 515 and 599.                                                 *)
(***************************************************************************)
EXTENDS Integers, Sequences, FiniteSets, TLC

VARIABLES
    builder,          \* the six configuration fields set by __init__
    messages,         \* the caller's message collection (argument of run)
    pc,               \* position inside run
    sorted_messages,  \* run: sorted_messages
    groups,           \* run / _group_by_time_window: groups
    current_group,    \* _group_by_time_window: current_group
    i,                \* loop index of the grouper, then of the semantic merger
    window,           \* _group_by_time_window: window of the last iteration
    window_group,     \* the group that window was computed from
    tw_groups,        \* the groups returned by _group_by_time_window
    reply_groups,     \* the groups entering the semantic stage
    group_texts,      \* _merge_by_semantic_similarity: group_texts
    similarities,     \* _merge_by_semantic_similarity: similarities
    sem_fallback,     \* why the similarity matrix is all zeros, if it is
    merged,           \* _merge_by_semantic_similarity: merged
    final_groups,     \* _merge_by_semantic_similarity: final_groups
    prefilter_groups, \* the groups just before quality filtering
    topics,           \* the list run returns
    run_no,           \* which call of run on this builder and input this is
    first_topics,     \* what the first call returned
    tfidf             \* the text backend's answers so far: texts -> matrix

vars == <<builder, messages, pc, sorted_messages, groups, current_group, i,
          window, window_group, tw_groups, reply_groups, group_texts,
          similarities, sem_fallback, merged, final_groups, prefilter_groups,
          topics, run_no, first_topics, tfidf>>

-----------------------------------------------------------------------------
(* Bounds of the model *)

MaxMsgs == 3

MaxGroupLen == 6

(* Program constants *)

DEFAULT_TIME_WINDOW == 300
MIN_MESSAGES_PER_TOPIC == 2
SEMANTIC_SIMILARITY_THRESHOLD == 30

NoneVal == "None"

-----------------------------------------------------------------------------
(* Sequence helpers *)

Range(s) == {s[k] : k \in 1..Len(s)}

Last(s) == s[Len(s)]

RECURSIVE Flatten(_)
Flatten(ss) == IF ss = <<>> THEN <<>> ELSE Head(ss) \o Flatten(Tail(ss))

-----------------------------------------------------------------------------
(* sorted(list(messages), key=lambda m: m.timestamp): Python's sort is     *)
(* stable, so messages of equal timestamp keep their relative order.       *)

(* A variant: the message goes to the end whatever its timestamp. *)
InsertAtEnd(s, m) == Append(s, m)

RECURSIVE InsertByTimestamp(_, _)
InsertByTimestamp(s, m) ==
    IF s = <<>> THEN <<m>>
    ELSE IF Last(s).timestamp <= m.timestamp THEN Append(s, m)
    ELSE Append(InsertByTimestamp(SubSeq(s, 1, Len(s) - 1), m), Last(s))

(* A variant: the list is left in the order it came in. *)
LeftUnsorted(s) == s

RECURSIVE SortedByTimestamp(_)
SortedByTimestamp(s) ==
    IF s = <<>> THEN <<>>
    ELSE InsertByTimestamp(SortedByTimestamp(SubSeq(s, 1, Len(s) - 1)), Last(s))

-----------------------------------------------------------------------------
(* Stage 1: _get_adaptive_window.  density = (len / time_span) * 60 is the *)
(* rational DensityNum / DensityDen; int(x) truncates, and time_window is  *)
(* a positive integer, so int(w * 0.5) = w \div 2 and                      *)
(* int(w * 1.5) = (3 * w) \div 2.                                          *)

TimeSpan(g) == Last(g).timestamp - g[1].timestamp

DensityNum(g) == IF TimeSpan(g) = 0 THEN Len(g) ELSE Len(g) * 60

DensityDen(g) == IF TimeSpan(g) = 0 THEN 1 ELSE TimeSpan(g)

(* A variant: the density classes closed below instead of open (>= for >). *)
GetAdaptiveWindowClosedBelow(self, g) ==
    IF ~self.enable_adaptive_window \/ Len(g) < 2
    THEN self.time_window
    ELSE LET num == DensityNum(g)
             den == DensityDen(g)
         IN  IF num >= 2 * den THEN self.time_window \div 2
             ELSE IF num >= den THEN self.time_window
             ELSE IF 2 * num >= den THEN (3 * self.time_window) \div 2
             ELSE 2 * self.time_window

(* A variant: the density decides the window whatever the flag says. *)
GetAdaptiveWindowFlagIgnored(self, g) ==
    IF Len(g) < 2
    THEN self.time_window
    ELSE LET num == DensityNum(g)
             den == DensityDen(g)
         IN  IF num > 2 * den THEN self.time_window \div 2
             ELSE IF num > den THEN self.time_window
             ELSE IF 2 * num > den THEN (3 * self.time_window) \div 2
             ELSE 2 * self.time_window

(* A variant: the sparsest class triples the window. *)
GetAdaptiveWindowTripled(self, g) ==
    IF ~self.enable_adaptive_window \/ Len(g) < 2
    THEN self.time_window
    ELSE LET num == DensityNum(g)
             den == DensityDen(g)
         IN  IF num > 2 * den THEN self.time_window \div 2
             ELSE IF num > den THEN self.time_window
             ELSE IF 2 * num > den THEN (3 * self.time_window) \div 2
             ELSE 3 * self.time_window

GetAdaptiveWindow(self, g) ==
    IF ~self.enable_adaptive_window \/ Len(g) < 2
    THEN self.time_window
    ELSE LET num == DensityNum(g)
             den == DensityDen(g)
         IN  IF num > 2 * den THEN self.time_window \div 2
             ELSE IF num > den THEN self.time_window
             ELSE IF 2 * num > den THEN (3 * self.time_window) \div 2
             ELSE 2 * self.time_window

-----------------------------------------------------------------------------
(* Stage 2: reply linking.                                                 *)
(*                                                                         *)
(* A raw payload (xml_content) is kept as the facts the extraction reads:  *)
(*   present    the payload is a non-empty string                          *)
(*   refermsg   the text "<refermsg>" occurs in it                         *)
(*   parses     ET.fromstring("<root>" + payload + "</root>") succeeds     *)
(*   refer_id   the text of the svrid child of the first refermsg element  *)
(*              (NoneVal: no such element, no such child, or empty text)   *)
(*   pattern_id the digits of the first match of <svrid>(\d+)</svrid>      *)
(*              (NoneVal: no match)                                        *)

(* A variant: the pattern is also tried after the structured parse fails. *)
ExtractQuotedMsgIdAfterFailure(msg) ==
    LET x == msg.xml_content IN
    IF ~x.present THEN NoneVal
    ELSE IF x.refermsg /\ x.parses /\ x.refer_id # NoneVal THEN "svrid_" \o x.refer_id
    ELSE IF x.pattern_id # NoneVal THEN "svrid_" \o x.pattern_id
    ELSE NoneVal

(* A variant: the structured reference block only, no pattern match. *)
ExtractQuotedMsgIdBlockOnly(msg) ==
    LET x == msg.xml_content IN
    IF ~x.present THEN NoneVal
    ELSE IF x.refermsg /\ x.parses /\ x.refer_id # NoneVal THEN "svrid_" \o x.refer_id
    ELSE NoneVal

(* _extract_quoted_msg_id.  ET.fromstring is called only when the text     *)
(* "<refermsg>" is in the payload; when it raises, the handler of line 316 *)
(* is entered and None is returned at line 319.                            *)
ExtractQuotedMsgId(msg) ==
    LET x == msg.xml_content IN
    IF ~x.present THEN NoneVal
    ELSE IF x.refermsg /\ ~x.parses THEN NoneVal
    ELSE IF x.refermsg /\ x.refer_id # NoneVal THEN "svrid_" \o x.refer_id
    ELSE IF x.pattern_id # NoneVal THEN "svrid_" \o x.pattern_id
    ELSE NoneVal

(* A variant: a relation is recorded for every quoted id, wherever the     *)
(* quoted message is.                                                      *)
RECURSIVE GroupRelationsAnywhere(_, _)
GroupRelationsAnywhere(g, k) ==
    IF k > Len(g) THEN <<>>
    ELSE LET quoted_msg_id == ExtractQuotedMsgId(g[k])
         IN  (IF quoted_msg_id # NoneVal
              THEN <<(<<g[k].msg_id, quoted_msg_id>>)>>
              ELSE <<>>) \o GroupRelationsAnywhere(g, k + 1)

(* _extract_reply_relations: msg_map holds the ids of the message's own    *)
(* group only.                                                             *)
RECURSIVE GroupRelations(_, _)
GroupRelations(g, k) ==
    IF k > Len(g) THEN <<>>
    ELSE LET quoted_msg_id == ExtractQuotedMsgId(g[k])
             msg_map == {g[n].msg_id : n \in 1..Len(g)}
         IN  (IF quoted_msg_id # NoneVal /\ quoted_msg_id \in msg_map
              THEN <<(<<g[k].msg_id, quoted_msg_id>>)>>
              ELSE <<>>) \o GroupRelations(g, k + 1)

RECURSIVE ExtractReplyRelations(_)
ExtractReplyRelations(gs) ==
    IF gs = <<>> THEN <<>>
    ELSE GroupRelations(Head(gs), 1) \o ExtractReplyRelations(Tail(gs))

(* msg_to_group: a later group overwrites an earlier one holding the id.   *)
MsgToGroup(gs) ==
    [id \in {m.msg_id : m \in UNION {Range(gs[k]) : k \in 1..Len(gs)}} |->
        CHOOSE k \in 1..Len(gs) :
            /\ id \in {m.msg_id : m \in Range(gs[k])}
            /\ \A n \in (k + 1)..Len(gs) : id \notin {m.msg_id : m \in Range(gs[n])}]

(* find, with its path halving: the parent array after the call and the root. *)
RECURSIVE find(_, _)
find(parent, x) ==
    IF parent[x] = x THEN [parent |-> parent, root |-> x]
    ELSE LET halved == [parent EXCEPT ![x] = parent[parent[x]]]
         IN  find(halved, halved[x])

(* A variant: x is linked to the group after it, not to y. *)
unionWithNext(parent, x, y) ==
    LET nxt == IF x < Len(parent) THEN x + 1 ELSE x
        fx == find(parent, x)
        fy == find(fx.parent, nxt)
    IN  IF fx.root # fy.root THEN [fy.parent EXCEPT ![fx.root] = fy.root]
        ELSE fy.parent

union(parent, x, y) ==
    LET fx == find(parent, x)
        fy == find(fx.parent, y)
    IN  IF fx.root # fy.root THEN [fy.parent EXCEPT ![fx.root] = fy.root]
        ELSE fy.parent

RECURSIVE UnionAll(_, _, _)
UnionAll(parent, relations, msg_to_group) ==
    IF relations = <<>> THEN parent
    ELSE LET r == Head(relations)
             next == IF r[1] \in DOMAIN msg_to_group /\ r[2] \in DOMAIN msg_to_group
                     THEN union(parent, msg_to_group[r[1]], msg_to_group[r[2]])
                     ELSE parent
         IN  UnionAll(next, Tail(relations), msg_to_group)

(* root_to_messages, a dict: its keys in order of first insertion (roots)  *)
(* and the messages gathered under each key (members).                     *)
RECURSIVE CollectByRoot(_, _, _, _)
CollectByRoot(gs, idx, parent, acc) ==
    IF idx > Len(gs) THEN acc
    ELSE LET f == find(parent, idx)
             known == f.root \in Range(acc.roots)
             roots == IF known THEN acc.roots ELSE Append(acc.roots, f.root)
             old == IF known THEN acc.members[f.root] ELSE <<>>
             members == [r \in Range(roots) |->
                            IF r = f.root THEN old \o gs[idx] ELSE acc.members[r]]
         IN  CollectByRoot(gs, idx + 1, f.parent, [roots |-> roots, members |-> members])

MergeByReplyRelation(gs) ==
    LET reply_relations == ExtractReplyRelations(gs) IN
    IF reply_relations = <<>> THEN gs
    ELSE LET parent == UnionAll([k \in 1..Len(gs) |-> k], reply_relations, MsgToGroup(gs))
             root_to_messages == CollectByRoot(gs, 1, parent,
                                               [roots |-> <<>>, members |-> <<>>])
         IN  [k \in 1..Len(root_to_messages.roots) |->
                 SortedByTimestamp(root_to_messages.members[root_to_messages.roots[k]])]

-----------------------------------------------------------------------------
(* String helpers: str.strip(), " ".join(words), s[:n].                    *)

WhiteSpace == {" ", "\n", "\t", "\r"}

RECURSIVE LStrip(_)
LStrip(s) ==
    IF s = "" THEN ""
    ELSE IF SubSeq(s, 1, 1) \in WhiteSpace THEN LStrip(SubSeq(s, 2, Len(s)))
    ELSE s

RECURSIVE RStrip(_)
RStrip(s) ==
    IF s = "" THEN ""
    ELSE IF SubSeq(s, Len(s), Len(s)) \in WhiteSpace THEN RStrip(SubSeq(s, 1, Len(s) - 1))
    ELSE s

Strip(s) == RStrip(LStrip(s))

Prefix(s, n) == IF Len(s) <= n THEN s ELSE SubSeq(s, 1, n)

RECURSIVE Join(_, _)
Join(sep, words) ==
    IF words = <<>> THEN ""
    ELSE IF Len(words) = 1 THEN words[1]
    ELSE words[1] \o sep \o Join(sep, Tail(words))

-----------------------------------------------------------------------------
(* Stage 3: semantic merging.                                              *)

(* _get_group_text *)
RECURSIVE GroupContents(_)
GroupContents(g) ==
    IF g = <<>> THEN <<>>
    ELSE (IF /\ Head(g).content # NoneVal
             /\ Head(g).content # ""
             /\ Head(g).content \notin {"[image]", "[voice]", "[video]"}
          THEN <<Head(g).content>>
          ELSE <<>>) \o GroupContents(Tail(g))

GetGroupText(g) == Join(" ", GroupContents(SubSeq(g, 1, IF Len(g) < 3 THEN Len(g) ELSE 3)))

(* _compute_semantic_similarities: valid_indices *)
ValidIndices(texts) == {k \in 1..Len(texts) : Strip(texts[k]) # ""}

ValidTexts(texts) == SelectSeq(texts, LAMBDA t : Strip(t) # "")

Zeros(n) == [a \in 1..n |-> [b \in 1..n |-> 0]]

(* The place of index k among the valid indices. *)
RankIn(S, k) == Cardinality({a \in S : a <= k})

(* A variant: a matrix of ones, not of zeros, when the backend raises. *)
ComputeSemanticSimilaritiesOnes(texts, answer) ==
    LET valid_indices == {k \in 1..Len(texts) : Strip(texts[k]) # ""}
        n == Len(texts)
    IN  IF Cardinality(valid_indices) < 2 THEN [a \in 1..n |-> [b \in 1..n |-> 0]]
        ELSE IF answer.raised THEN [a \in 1..n |-> [b \in 1..n |-> 100]]
        ELSE [a \in 1..n |-> [b \in 1..n |->
                 IF a \in valid_indices /\ b \in valid_indices
                 THEN answer.sim[RankIn(valid_indices, a)][RankIn(valid_indices, b)]
                 ELSE 0]]

(* The matrix built from what the text backend answered for the valid      *)
(* texts: answer.raised (fit_transform or cosine_similarity raised) or the *)
(* matrix answer.sim over the valid texts.                                 *)
ComputeSemanticSimilarities(texts, answer) ==
    LET valid_indices == ValidIndices(texts)
        n == Len(texts)
    IN  IF Cardinality(valid_indices) < 2 THEN Zeros(n)
        ELSE IF answer.raised THEN Zeros(n)
        ELSE [a \in 1..n |-> [b \in 1..n |->
                 IF a \in valid_indices /\ b \in valid_indices
                 THEN answer.sim[RankIn(valid_indices, a)][RankIn(valid_indices, b)]
                 ELSE 0]]

(* A variant: a strict comparison with the threshold. *)
RECURSIVE SimilarIndicesStrict(_, _, _, _, _)
SimilarIndicesStrict(self, sims, done, anchor, j) ==
    IF j > Len(done) THEN <<>>
    ELSE (IF ~done[j] /\ sims[anchor][j] > self.semantic_threshold THEN <<j>> ELSE <<>>)
         \o SimilarIndicesStrict(self, sims, done, anchor, j + 1)

(* A variant: an index is also taken when it is similar to one already     *)
(* taken, not only to the anchor.                                          *)
RECURSIVE TakenTransitively(_, _, _, _, _)
TakenTransitively(self, sims, done, taken, j) ==
    IF j > Len(done) THEN <<>>
    ELSE IF ~done[j] /\ \E a \in taken : sims[a][j] >= self.semantic_threshold
         THEN <<j>> \o TakenTransitively(self, sims, done, taken \cup {j}, j + 1)
         ELSE TakenTransitively(self, sims, done, taken, j + 1)

SimilarIndicesTransitive(self, sims, done, anchor, j) ==
    TakenTransitively(self, sims, done, {anchor}, j)

(* A variant: a group already merged into an earlier one is taken again. *)
RECURSIVE SimilarIndicesMergedAgain(_, _, _, _, _)
SimilarIndicesMergedAgain(self, sims, done, anchor, j) ==
    IF j > Len(done) THEN <<>>
    ELSE (IF sims[anchor][j] >= self.semantic_threshold THEN <<j>> ELSE <<>>)
         \o SimilarIndicesMergedAgain(self, sims, done, anchor, j + 1)

(* The inner loop over j of _merge_by_semantic_similarity. *)
RECURSIVE SimilarIndices(_, _, _, _, _)
SimilarIndices(self, sims, done, anchor, j) ==
    IF j > Len(done) THEN <<>>
    ELSE (IF ~done[j] /\ sims[anchor][j] >= self.semantic_threshold THEN <<j>> ELSE <<>>)
         \o SimilarIndices(self, sims, done, anchor, j + 1)

RECURSIVE ExtendAll(_, _)
ExtendAll(gs, indices) ==
    IF indices = <<>> THEN <<>>
    ELSE gs[Head(indices)] \o ExtendAll(gs, Tail(indices))

-----------------------------------------------------------------------------
(* Topic assembly.                                                         *)

(* str.split(): the words between runs of whitespace. *)
RECURSIVE SplitWords(_)
SplitWords(s) ==
    LET t == LStrip(s) IN
    IF t = "" THEN <<>>
    ELSE LET spaces == {k \in 1..Len(t) : SubSeq(t, k, k) \in WhiteSpace}
         IN  IF spaces = {} THEN <<t>>
             ELSE LET first == CHOOSE k \in spaces : \A n \in spaces : k <= n
                  IN  <<SubSeq(t, 1, first - 1)>> \o SplitWords(SubSeq(t, first, Len(t)))

(* A variant: the call's number enters the digest. *)
GenerateTopicIdPerCall(message) ==
    <<"md5[:12]",
      ToString(message.timestamp) \o "_" \o message.sender_id \o "_" \o message.msg_id
          \o "_" \o ToString(run_no)>>

(* _generate_topic_id: the first 12 hex digits of the MD5 digest of the    *)
(* formatted string, kept as the digest's input under a tag.               *)
GenerateTopicId(message) ==
    <<"md5[:12]",
      ToString(message.timestamp) \o "_" \o message.sender_id \o "_" \o message.msg_id>>

(* A variant: the content is compared with the placeholders untrimmed. *)
RECURSIVE GenerateTitleUntrimmed(_)
GenerateTitleUntrimmed(g) ==
    IF g = <<>> THEN [raised |-> FALSE, title |-> "unknown topic"]
    ELSE IF Head(g).content = NoneVal THEN [raised |-> TRUE, title |-> NoneVal]
    ELSE LET content == Strip(Head(g).content) IN
         IF content # "" /\ Head(g).content \notin {"[image]", "[voice]", "[video]", "[emoji]"}
         THEN LET title == Join(" ", SplitWords(content))
              IN  [raised |-> FALSE,
                   title |-> IF Len(title) > 50 THEN SubSeq(title, 1, 50) \o "..." ELSE title]
         ELSE GenerateTitleUntrimmed(Tail(g))

(* _generate_title.  msg.content.strip() raises AttributeError when the    *)
(* content is None: raised is TRUE and no title is returned.               *)
RECURSIVE GenerateTitle(_)
GenerateTitle(g) ==
    IF g = <<>> THEN [raised |-> FALSE, title |-> "unknown topic"]
    ELSE IF Head(g).content = NoneVal THEN [raised |-> TRUE, title |-> NoneVal]
    ELSE LET content == Strip(Head(g).content) IN
         IF content # "" /\ content \notin {"[image]", "[voice]", "[video]", "[emoji]"}
         THEN LET title == Join(" ", SplitWords(content))
              IN  [raised |-> FALSE,
                   title |-> IF Len(title) > 50 THEN SubSeq(title, 1, 50) \o "..." ELSE title]
         ELSE GenerateTitle(Tail(g))

(* _generate_conclusion *)
ContentMessages(g) ==
    SelectSeq(SubSeq(g, 1, IF Len(g) < 5 THEN Len(g) ELSE 5),
              LAMBDA m : /\ m.content # NoneVal
                         /\ m.content # ""
                         /\ Strip(m.content) \notin {"[image]", "[voice]", "[video]"})

GenerateConclusion(g) ==
    IF Len(g) <= 1 THEN NoneVal
    ELSE IF ContentMessages(g) = <<>> THEN NoneVal
    ELSE LET content_messages == ContentMessages(g)
             contents == [k \in 1..Len(content_messages) |->
                             Strip(Prefix(content_messages[k].content, 100))]
             conclusion == Join(" | ", contents)
         IN  IF Len(conclusion) > 300 THEN SubSeq(conclusion, 1, 300) \o "..."
             ELSE conclusion

(* The loop of lines 466-481: m.content.startswith('<') is evaluated, and  *)
(* raises AttributeError on a None content, when xml_content is falsy.     *)
SnapshotRaises(g) ==
    \E k \in 1..Len(g) : ~g[k].xml_content.present /\ g[k].content = NoneVal

(* _extract_link_info_from_xml of the payload chosen at line 469: the      *)
(* payload's link fact; a content is parsed only when it starts with "<".  *)
LinkInfo(m) ==
    IF m.xml_content.present THEN m.xml_content.link
    ELSE IF Len(m.content) > 0 /\ SubSeq(m.content, 1, 1) = "<" THEN "link of content"
    ELSE NoneVal

CreateTopicRaises(g) == GenerateTitle(g).raised \/ SnapshotRaises(g)

(* A variant: the end time is read from the first message. *)
CreateTopicFromGroupEndAtStart(g) ==
    [topic_id |-> GenerateTopicId(g[1]),
     message_ids |-> [k \in 1..Len(g) |-> g[k].msg_id],
     title |-> GenerateTitle(g).title,
     participants |-> {g[k].sender_name : k \in 1..Len(g)},
     initiator |-> g[1].sender_name,
     start_time |-> g[1].timestamp,
     end_time |-> g[1].timestamp,
     conclusion |-> GenerateConclusion(g),
     message_count |-> Len(g),
     messages |-> [k \in 1..Len(g) |->
                      [msg_id |-> g[k].msg_id,
                       sender_name |-> g[k].sender_name,
                       content |-> g[k].content,
                       timestamp |-> g[k].timestamp,
                       msg_type |-> g[k].msg_type,
                       link |-> LinkInfo(g[k])]]]

CreateTopicFromGroup(g) ==
    [topic_id |-> GenerateTopicId(g[1]),
     message_ids |-> [k \in 1..Len(g) |-> g[k].msg_id],
     title |-> GenerateTitle(g).title,
     participants |-> {g[k].sender_name : k \in 1..Len(g)},
     initiator |-> g[1].sender_name,
     start_time |-> g[1].timestamp,
     end_time |-> Last(g).timestamp,
     conclusion |-> GenerateConclusion(g),
     message_count |-> Len(g),
     messages |-> [k \in 1..Len(g) |->
                      [msg_id |-> g[k].msg_id,
                       sender_name |-> g[k].sender_name,
                       content |-> g[k].content,
                       timestamp |-> g[k].timestamp,
                       msg_type |-> g[k].msg_type,
                       link |-> LinkInfo(g[k])]]]

-----------------------------------------------------------------------------
(* The inputs of the model.                                                *)

Digit == <<"1", "2", "3", "4", "5", "6", "7", "8", "9">>

(* xml_content: None; a well-formed reference block quoting svrid d; a     *)
(* reference block that does not parse, with the same svrid in it.         *)
NoPayload ==
    [present |-> FALSE, refermsg |-> FALSE, parses |-> TRUE,
     refer_id |-> NoneVal, pattern_id |-> NoneVal, link |-> NoneVal]

Quote(d) ==
    [present |-> TRUE, refermsg |-> TRUE, parses |-> TRUE,
     refer_id |-> d, pattern_id |-> d, link |-> NoneVal]

Malformed(d) ==
    [present |-> TRUE, refermsg |-> TRUE, parses |-> FALSE,
     refer_id |-> NoneVal, pattern_id |-> d, link |-> NoneVal]

(* A payload without "<refermsg>" in it that the pattern matches, such as  *)
(* "<msg><svrid>d</svrid>": it is never given to the XML parser.           *)
Bare(d) ==
    [present |-> TRUE, refermsg |-> FALSE, parses |-> FALSE,
     refer_id |-> NoneVal, pattern_id |-> d, link |-> NoneVal]

(* A well-formed reference block without a svrid child, and a svrid        *)
(* element outside the block: "<refermsg/>" is not the text "<refermsg>",  *)
(* so this is "<refermsg><x/></refermsg><svrid>d</svrid>".                 *)
BlockWithoutId(d) ==
    [present |-> TRUE, refermsg |-> TRUE, parses |-> TRUE,
     refer_id |-> NoneVal, pattern_id |-> d, link |-> NoneVal]

(* A well-formed payload with neither a block nor a match. *)
Plain ==
    [present |-> TRUE, refermsg |-> FALSE, parses |-> TRUE,
     refer_id |-> NoneVal, pattern_id |-> NoneVal, link |-> NoneVal]

Message(k, ts, sender, content, xml) ==
    [msg_id |-> "svrid_" \o Digit[k], timestamp |-> ts, sender_id |-> sender,
     sender_name |-> "name of " \o sender, msg_type |-> "1", content |-> content,
     xml_content |-> xml]

(* Every collection of n messages, message k with id svrid_k, whose fields *)
(* are drawn from the given sets. *)
Inputs(n, TS, SS, CS, XS) ==
    {[k \in 1..n |-> Message(k, f[k][1], f[k][2], f[k][3], f[k][4])] :
        f \in [1..n -> TS \X SS \X CS \X XS]}

(* The same with the timestamps given by the gaps between neighbours, the  *)
(* first message at 0: collections already in timestamp order.             *)
RECURSIVE Offset(_, _)
Offset(gaps, k) == IF k = 1 THEN 0 ELSE Offset(gaps, k - 1) + gaps[k]

InputsByGap(n, GS, SS, CS, XS) ==
    {[k \in 1..n |-> Message(k, Offset(gaps, k), f[k][1], f[k][2], f[k][3])] :
        gaps \in [2..n -> GS], f \in [1..n -> SS \X CS \X XS]}

TimeVals == {0, 30, 150, 300, 900}

Gaps == {30, 900}

Builders(TW, MM, ST, RC, SE, AW) ==
    [time_window : TW, min_messages : MM, semantic_threshold : ST,
     enable_reply_chain : RC, enable_semantic : SE, enable_adaptive_window : AW]

Thresholds == {0, SEMANTIC_SIMILARITY_THRESHOLD, 100}

(* The toggles in every combination at the default numbers, and each       *)
(* number varied with every stage on. *)
MixBuilders ==
    Builders({DEFAULT_TIME_WINDOW}, {MIN_MESSAGES_PER_TOPIC},
             {SEMANTIC_SIMILARITY_THRESHOLD}, BOOLEAN, BOOLEAN, BOOLEAN)
    \cup Builders({DEFAULT_TIME_WINDOW}, {MIN_MESSAGES_PER_TOPIC}, Thresholds,
                  {TRUE}, {TRUE}, {TRUE})
    \cup Builders({DEFAULT_TIME_WINDOW}, {1}, {SEMANTIC_SIMILARITY_THRESHOLD},
                  {TRUE}, {TRUE}, {TRUE})

(* The answers of the text backend (TfidfVectorizer.fit_transform, then    *)
(* cosine_similarity) for n texts: it raises, or returns a symmetric       *)
(* matrix with a unit diagonal.                                            *)
SimLevels == {0, SEMANTIC_SIMILARITY_THRESHOLD}

Pairs(n) == {p \in (1..n) \X (1..n) : p[1] < p[2]}

BackendAnswers(n) ==
    {[raised |-> TRUE, sim |-> <<>>]} \cup
    {[raised |-> FALSE,
      sim |-> [a \in 1..n |-> [b \in 1..n |->
                  IF a = b THEN 100
                  ELSE IF a < b THEN f[<<a, b>>] ELSE f[<<b, a>>]]]] :
        f \in [Pairs(n) -> SimLevels]}

-----------------------------------------------------------------------------
(* The state after construction and before a call of run.                  *)

Idle ==
    /\ pc = "start"
    /\ sorted_messages = <<>>
    /\ groups = <<>>
    /\ current_group = <<>>
    /\ i = 0
    /\ window = 0
    /\ window_group = <<>>
    /\ tw_groups = <<>>
    /\ reply_groups = <<>>
    /\ group_texts = <<>>
    /\ similarities = <<>>
    /\ sem_fallback = "none"
    /\ merged = <<>>
    /\ final_groups = <<>>
    /\ prefilter_groups = <<>>
    /\ topics = <<>>

(* Timestamps in any order and around every threshold of the window, with  *)
(* an even and an odd base window. *)
InitTime ==
    /\ builder \in Builders({DEFAULT_TIME_WINDOW, DEFAULT_TIME_WINDOW + 1},
                            {MIN_MESSAGES_PER_TOPIC}, {SEMANTIC_SIMILARITY_THRESHOLD},
                            {FALSE}, {FALSE}, BOOLEAN)
    /\ \E n \in 0..MaxMsgs :
          messages \in Inputs(n, TimeVals, {"u1"}, {"a"}, {NoPayload})

(* Contents: text, empty, absent. *)
InitText ==
    /\ builder \in MixBuilders
    /\ \E n \in 1..MaxMsgs :
          messages \in InputsByGap(n, Gaps, {"u1"}, {"a", "", NoneVal}, {NoPayload})

(* Payloads: none, a reference to the first or the second message of the   *)
(* collection or to a message outside it, a reference block that does not  *)
(* parse. *)
InitReply ==
    /\ builder \in Builders({DEFAULT_TIME_WINDOW}, {MIN_MESSAGES_PER_TOPIC},
                              {SEMANTIC_SIMILARITY_THRESHOLD}, BOOLEAN, {FALSE}, {TRUE})
                  \cup Builders({DEFAULT_TIME_WINDOW}, {1, MIN_MESSAGES_PER_TOPIC + 1},
                                {SEMANTIC_SIMILARITY_THRESHOLD}, {TRUE}, {FALSE}, {TRUE})
    /\ \E n \in 1..MaxMsgs :
          messages \in InputsByGap(n, Gaps, {"u1"}, {"a"},
                                   {NoPayload, Malformed(Digit[1]), Quote(Digit[1]),
                                    Quote(Digit[2]), Quote(Digit[n + 1])})

(* Payloads of every shape the extraction tells apart, in one group. *)
InitExtract ==
    /\ builder \in Builders({DEFAULT_TIME_WINDOW}, {MIN_MESSAGES_PER_TOPIC},
                            {SEMANTIC_SIMILARITY_THRESHOLD}, {TRUE}, {FALSE}, {TRUE})
    /\ \E n \in 1..MaxMsgs :
          messages \in InputsByGap(n, {30}, {"u1"}, {"a"},
                                   {NoPayload, Plain, Bare(Digit[1]),
                                    BlockWithoutId(Digit[1]), Malformed(Digit[1]),
                                    Quote(Digit[1])})

(* Collections in which a message may carry the id of the message before   *)
(* it (a record that is in the export twice), with references to the first *)
(* message. *)
InitRepeatedIds ==
    /\ builder \in Builders({DEFAULT_TIME_WINDOW}, {MIN_MESSAGES_PER_TOPIC},
                            {SEMANTIC_SIMILARITY_THRESHOLD}, {TRUE}, BOOLEAN, {TRUE})
    /\ \E n \in 1..MaxMsgs :
          \E ms \in InputsByGap(n, Gaps, {"u1"}, {"a"}, {NoPayload, Quote(Digit[1])}) :
              \E again \in SUBSET (2..n) :
                  messages = [k \in 1..n |->
                                 IF k \in again
                                 THEN [ms[k] EXCEPT !.msg_id = ms[k - 1].msg_id]
                                 ELSE ms[k]]

(* Collections in any order, their timestamps far enough apart for up to   *)
(* three groups, some of them equal. *)
OrderTimes == {0, 900, 1800}

InitAnyOrder ==
    /\ Idle
    /\ run_no = 1
    /\ first_topics = <<>>
    /\ tfidf = <<>>
    /\ builder \in Builders({DEFAULT_TIME_WINDOW}, {1, MIN_MESSAGES_PER_TOPIC},
                            {SEMANTIC_SIMILARITY_THRESHOLD}, {TRUE}, BOOLEAN, {TRUE})
    /\ \E n \in 1..MaxMsgs :
          messages \in Inputs(n, OrderTimes, {"u1"}, {"a"}, {NoPayload})

InitAnyIds ==
    /\ Idle
    /\ run_no = 1
    /\ first_topics = <<>>
    /\ tfidf = <<>>
    /\ InitRepeatedIds

(* A dense burst at t = 0, 5, 9 and two messages 1200 seconds apart, under *)
(* every combination of the toggles. *)
InitScenarios ==
    /\ builder \in Builders({DEFAULT_TIME_WINDOW}, {MIN_MESSAGES_PER_TOPIC},
                            {SEMANTIC_SIMILARITY_THRESHOLD}, BOOLEAN, BOOLEAN, BOOLEAN)
    /\ messages \in {<<Message(1, 0, "u1", "a", NoPayload),
                        Message(2, 5, "u1", "a", NoPayload),
                        Message(3, 9, "u1", "a", NoPayload)>>,
                      <<Message(1, 0, "u1", "a", NoPayload),
                        Message(2, 1200, "u2", "b", NoPayload)>>}

(* Senders. *)
InitPeople ==
    /\ builder \in Builders({DEFAULT_TIME_WINDOW}, {MIN_MESSAGES_PER_TOPIC},
                            {SEMANTIC_SIMILARITY_THRESHOLD}, {TRUE}, {TRUE}, {TRUE})
    /\ \E n \in 1..MaxMsgs :
          messages \in InputsByGap(n, Gaps, {"u1", "u2"}, {"a", "[image]"}, {NoPayload})

Init ==
    /\ Idle
    /\ run_no = 1
    /\ first_topics = <<>>
    /\ tfidf = <<>>
    /\ (InitTime \/ InitText \/ InitReply \/ InitExtract \/ InitScenarios \/ InitPeople)

-----------------------------------------------------------------------------
(* Inputs for topic assembly: long groups and long contents.               *)

RECURSIVE Repeat(_, _)
Repeat(c, n) ==
    IF n = 0 THEN ""
    ELSE LET half == Repeat(c, n \div 2)
         IN  half \o half \o (IF n % 2 = 1 THEN c ELSE "")

(* A content longer than the 100 characters kept of each message. *)
LongContent == Repeat("x", 120)

(* Contents around the title's rules: whitespace to trim and to collapse,  *)
(* placeholders bare and padded, 50 and 51 characters, and 60 characters   *)
(* that collapse to 41. *)
TitleContents ==
    {"a", "", " ", "[image]", "[emoji]", " [voice] ", "  a \n b  ",
     Repeat("x", 50), Repeat("x", 51),
     Repeat("x", 20) \o Repeat(" ", 20) \o Repeat("y", 20)}

(* One group of up to MaxGroupLen messages, 30 seconds apart. *)
InitLongGroup ==
    /\ builder \in Builders({DEFAULT_TIME_WINDOW}, {MIN_MESSAGES_PER_TOPIC},
                            {SEMANTIC_SIMILARITY_THRESHOLD}, {TRUE}, {TRUE}, {TRUE})
    /\ \E n \in 1..MaxGroupLen :
          messages \in InputsByGap(n, {30}, {"u1"}, {"a", "[image]", LongContent},
                                   {NoPayload})

(* One or two messages, in one group or two, with every pair of contents. *)
InitTitles ==
    /\ builder \in Builders({DEFAULT_TIME_WINDOW}, {1, MIN_MESSAGES_PER_TOPIC},
                            {SEMANTIC_SIMILARITY_THRESHOLD}, {TRUE}, {TRUE}, {TRUE})
    /\ \E n \in 1..2 :
          messages \in InputsByGap(n, Gaps, {"u1"}, TitleContents, {NoPayload})

InitTopics ==
    /\ Idle
    /\ run_no = 1
    /\ first_topics = <<>>
    /\ tfidf = <<>>
    /\ (InitLongGroup \/ InitTitles)

-----------------------------------------------------------------------------
(* TopicBuilder.run, step by step.                                         *)

(* A variant: the caller's list is sorted in place, as messages.sort(). *)
ArgumentSortedInPlace(ms) == SortedByTimestamp(ms)

(* Line 87: sorted(list(messages), ...) sorts a copy; the argument of run  *)
(* is as it was. *)
ArgumentAfterSort(ms) == ms

(* A variant: run does not look at whether there are messages. *)
NoMessagesUnnoticed(ms) == FALSE

(* Line 91: not sorted_messages *)
NoMessages(ms) == ms = <<>>

(* Lines 87-96 and 137-141: sort, return [] on no messages; else the       *)
(* grouper is called, which returns [] on no messages (lines 137-138) and  *)
(* else opens the first group. *)
RunStart ==
    /\ pc = "start"
    /\ sorted_messages' = SortedByTimestamp(messages)
    /\ IF NoMessages(sorted_messages')
       THEN /\ topics' = <<>>
            /\ pc' = "done"
            /\ UNCHANGED <<current_group, i>>
       ELSE IF sorted_messages' = <<>>
       THEN /\ pc' = "reply"
            /\ UNCHANGED <<current_group, i, topics>>
       ELSE /\ current_group' = <<sorted_messages'[1]>>
            /\ i' = 2
            /\ pc' = "tw_loop"
            /\ UNCHANGED topics
    /\ messages' = ArgumentAfterSort(messages)
    /\ UNCHANGED <<builder, groups, window, window_group, tw_groups,
                   reply_groups, group_texts, similarities, sem_fallback, merged,
                   final_groups, prefilter_groups, run_no, first_topics, tfidf>>

(* A variant: the window is computed from the group with the candidate in it. *)
WindowInputWithCandidate(group_so_far, curr_msg) == Append(group_so_far, curr_msg)

(* Line 154 *)
WithinWindow(time_diff, w) == time_diff <= w

(* Line 148: the group the window is computed from. *)
WindowInput(group_so_far, curr_msg) == group_so_far

(* A variant: the group still open when the loop ends is not added. *)
CloseLastGroupForgotten(gs, last_group) == gs

(* A variant: the last group is kept only when it has the default minimum *)
(* number of messages: a quality filter ahead of the merge stages.         *)
CloseLastGroupIfLarge(gs, last_group) ==
    IF Len(last_group) >= MIN_MESSAGES_PER_TOPIC THEN Append(gs, last_group) ELSE gs

(* Lines 161-163 *)
CloseLastGroup(gs, last_group) ==
    IF last_group # <<>> THEN Append(gs, last_group) ELSE gs

(* A variant: the gap is measured to the message after the candidate. *)
TimeDiffAhead(msgs, idx) ==
    IF idx < Len(msgs) THEN msgs[idx + 1].timestamp - msgs[idx].timestamp
    ELSE msgs[idx].timestamp - msgs[idx - 1].timestamp

(* Line 151, for the candidate at place idx of the list. *)
TimeDiff(msgs, idx) == msgs[idx].timestamp - msgs[idx - 1].timestamp

(* _group_by_time_window as a function of its argument: the loop of lines  *)
(* 143-159 from place idx on, then lines 161-165. *)
RECURSIVE GroupByTimeWindowFrom(_, _, _, _, _)
GroupByTimeWindowFrom(self, msgs, idx, gs, cur) ==
    IF idx > Len(msgs) THEN CloseLastGroup(gs, cur)
    ELSE LET w == GetAdaptiveWindow(self, WindowInput(cur, msgs[idx]))
         IN  IF WithinWindow(TimeDiff(msgs, idx), w)
             THEN GroupByTimeWindowFrom(self, msgs, idx + 1, gs, Append(cur, msgs[idx]))
             ELSE GroupByTimeWindowFrom(self, msgs, idx + 1, Append(gs, cur), <<msgs[idx]>>)

GroupByTimeWindow(self, msgs) ==
    IF msgs = <<>> THEN <<>>
    ELSE GroupByTimeWindowFrom(self, msgs, 2, <<>>, <<msgs[1]>>)

(* Lines 143-159: one iteration of the grouper's loop. *)
GroupStep ==
    /\ pc = "tw_loop"
    /\ i <= Len(sorted_messages)
    /\ LET prev_msg == sorted_messages[i - 1]
           curr_msg == sorted_messages[i]
           w == GetAdaptiveWindow(builder, WindowInput(current_group, curr_msg))
           time_diff == TimeDiff(sorted_messages, i)
       IN  /\ window' = w
           /\ window_group' = current_group
           /\ IF WithinWindow(time_diff, w)
              THEN /\ current_group' = Append(current_group, curr_msg)
                   /\ UNCHANGED groups
              ELSE /\ groups' = Append(groups, current_group)
                   /\ current_group' = <<curr_msg>>
    /\ i' = i + 1
    /\ UNCHANGED <<builder, messages, pc, sorted_messages, tw_groups, reply_groups,
                   group_texts, similarities, sem_fallback, merged, final_groups,
                   prefilter_groups, topics, run_no, first_topics, tfidf>>

(* Lines 161-165 and 96-97: the last group is added and the groups returned. *)
GroupFinish ==
    /\ pc = "tw_loop"
    /\ i > Len(sorted_messages)
    /\ groups' = CloseLastGroup(groups, current_group)
    /\ tw_groups' = groups'
    /\ pc' = "reply"
    /\ UNCHANGED <<builder, messages, sorted_messages, current_group, i, window,
                   window_group, reply_groups, group_texts, similarities, sem_fallback,
                   merged, final_groups, prefilter_groups, topics, run_no,
                   first_topics, tfidf>>

(* Lines 99-103 *)
ReplyStage ==
    /\ pc = "reply"
    /\ groups' = IF builder.enable_reply_chain THEN MergeByReplyRelation(groups) ELSE groups
    /\ reply_groups' = groups'
    /\ pc' = "semantic"
    /\ UNCHANGED <<builder, messages, sorted_messages, current_group, i, window,
                   window_group, tw_groups, group_texts, similarities, sem_fallback,
                   merged, final_groups, prefilter_groups, topics, run_no,
                   first_topics, tfidf>>

(* A variant: the merger runs whatever the flag says. *)
SemanticPassThroughFlagIgnored(self, gs) == Len(gs) <= 1

(* Lines 106 and 338: the merger is not called, or returns its argument. *)
SemanticPassThrough(self, gs) == ~self.enable_semantic \/ Len(gs) <= 1

(* Lines 106-108 and 338-349: pass through, or texts and similarities.     *)
(* The text backend is a function of the texts it is given: it answers a   *)
(* list of texts it has seen as it answered before.                        *)
SemanticStart ==
    /\ pc = "semantic"
    /\ IF SemanticPassThrough(builder, groups)
       THEN /\ pc' = "filter"
            /\ UNCHANGED <<group_texts, similarities, sem_fallback, merged,
                           final_groups, i, tfidf>>
       ELSE LET texts == [k \in 1..Len(groups) |-> GetGroupText(groups[k])]
                valid_texts == ValidTexts(texts)
            IN  /\ group_texts' = texts
                /\ \E answer \in
                        IF Len(valid_texts) < 2 THEN {[raised |-> FALSE, sim |-> <<>>]}
                        ELSE IF valid_texts \in DOMAIN tfidf THEN {tfidf[valid_texts]}
                        ELSE BackendAnswers(Len(valid_texts)) :
                      /\ similarities' = ComputeSemanticSimilarities(texts, answer)
                      /\ sem_fallback' = IF Len(valid_texts) < 2 THEN "few texts"
                                         ELSE IF answer.raised THEN "raised"
                                         ELSE "none"
                      /\ tfidf' = IF Len(valid_texts) < 2 THEN tfidf
                                  ELSE (valid_texts :> answer) @@ tfidf
                /\ merged' = [k \in 1..Len(groups) |-> FALSE]
                /\ final_groups' = <<>>
                /\ i' = 1
                /\ pc' = "sem_loop"
    /\ UNCHANGED <<builder, messages, sorted_messages, groups, current_group, window,
                   window_group, tw_groups, reply_groups, prefilter_groups, topics,
                   run_no, first_topics>>

(* Lines 351-370: one iteration of the merger's loop over i. *)
SemanticStep ==
    /\ pc = "sem_loop"
    /\ i <= Len(groups)
    /\ IF merged[i]
       THEN UNCHANGED <<merged, final_groups>>
       ELSE LET similar_indices ==
                    <<i>> \o SimilarIndices(builder, similarities, merged, i, i + 1)
                merged_group == ExtendAll(groups, similar_indices)
            IN  /\ merged' = [k \in 1..Len(groups) |->
                                 merged[k] \/ k \in Range(similar_indices)]
                /\ final_groups' = Append(final_groups, SortedByTimestamp(merged_group))
    /\ i' = i + 1
    /\ UNCHANGED <<builder, messages, pc, sorted_messages, groups, current_group,
                   window, window_group, tw_groups, reply_groups, group_texts,
                   similarities, sem_fallback, prefilter_groups, topics, run_no,
                   first_topics, tfidf>>

(* Lines 372 and 108-109 *)
SemanticFinish ==
    /\ pc = "sem_loop"
    /\ i > Len(groups)
    /\ groups' = final_groups
    /\ pc' = "filter"
    /\ UNCHANGED <<builder, messages, sorted_messages, current_group, i, window,
                   window_group, tw_groups, reply_groups, group_texts, similarities,
                   sem_fallback, merged, final_groups, prefilter_groups, topics,
                   run_no, first_topics, tfidf>>

(* A variant: a strict comparison with min_messages. *)
QualityFilterStrict(self, gs) == SelectSeq(gs, LAMBDA g : Len(g) > self.min_messages)

(* A variant: the groups that pass are returned latest first. *)
QualityFilterLatestFirst(self, gs) ==
    LET kept == SelectSeq(gs, LAMBDA g : Len(g) >= self.min_messages)
    IN  [k \in 1..Len(kept) |-> kept[Len(kept) + 1 - k]]

(* Line 113 *)
QualityFilter(self, gs) == SelectSeq(gs, LAMBDA g : Len(g) >= self.min_messages)

Filter ==
    /\ pc = "filter"
    /\ prefilter_groups' = groups
    /\ groups' = QualityFilter(builder, groups)
    /\ pc' = "assemble"
    /\ UNCHANGED <<builder, messages, sorted_messages, current_group, i, window,
                   window_group, tw_groups, reply_groups, group_texts, similarities,
                   sem_fallback, merged, final_groups, topics, run_no, first_topics,
                   tfidf>>

(* Lines 117-121: the topics are returned, or the exception of the first   *)
(* group whose assembly raises leaves run. *)
Assemble ==
    /\ pc = "assemble"
    /\ IF \E k \in 1..Len(groups) : CreateTopicRaises(groups[k])
       THEN /\ pc' = "raised"
            /\ UNCHANGED topics
       ELSE /\ topics' = [k \in 1..Len(groups) |-> CreateTopicFromGroup(groups[k])]
            /\ pc' = "done"
    /\ UNCHANGED <<builder, messages, sorted_messages, groups, current_group, i,
                   window, window_group, tw_groups, reply_groups, group_texts,
                   similarities, sem_fallback, merged, final_groups, prefilter_groups,
                   run_no, first_topics, tfidf>>

(* The caller calls run a second time on the same builder and collection. *)
RunAgain ==
    /\ pc = "done"
    /\ run_no = 1
    /\ run_no' = 2
    /\ first_topics' = topics
    /\ pc' = "start"
    /\ sorted_messages' = <<>>
    /\ groups' = <<>>
    /\ current_group' = <<>>
    /\ i' = 0
    /\ window' = 0
    /\ window_group' = <<>>
    /\ tw_groups' = <<>>
    /\ reply_groups' = <<>>
    /\ group_texts' = <<>>
    /\ similarities' = <<>>
    /\ sem_fallback' = "none"
    /\ merged' = <<>>
    /\ final_groups' = <<>>
    /\ prefilter_groups' = <<>>
    /\ topics' = <<>>
    /\ UNCHANGED <<builder, messages, tfidf>>

Next ==
    \/ RunStart
    \/ GroupStep
    \/ GroupFinish
    \/ ReplyStage
    \/ SemanticStart
    \/ SemanticStep
    \/ SemanticFinish
    \/ Filter
    \/ Assemble

Spec == Init /\ [][Next]_vars

(* One call of run on the inputs for topic assembly. *)
SpecTopics == InitTopics /\ [][Next]_vars

(* One call of run, or two in sequence. *)
(* run on collections whose message ids need not be unique. *)
SpecAnyIds == InitAnyIds /\ [][Next]_vars

(* The orders a collection can be handed over in. *)
OrdersOf(ms) ==
    {[k \in 1..Len(ms) |-> ms[p[k]]] :
        p \in {q \in [1..Len(ms) -> 1..Len(ms)] :
                  \A a, b \in 1..Len(ms) : q[a] = q[b] => a = b}}

(* The caller calls run a second time on the same builder, with the same   *)
(* messages in another order. *)
RunPermuted ==
    /\ pc = "done"
    /\ run_no = 1
    /\ messages' \in OrdersOf(messages) \ {messages}
    /\ run_no' = 2
    /\ first_topics' = topics
    /\ pc' = "start"
    /\ sorted_messages' = <<>>
    /\ groups' = <<>>
    /\ current_group' = <<>>
    /\ i' = 0
    /\ window' = 0
    /\ window_group' = <<>>
    /\ tw_groups' = <<>>
    /\ reply_groups' = <<>>
    /\ group_texts' = <<>>
    /\ similarities' = <<>>
    /\ sem_fallback' = "none"
    /\ merged' = <<>>
    /\ final_groups' = <<>>
    /\ prefilter_groups' = <<>>
    /\ topics' = <<>>
    /\ UNCHANGED <<builder, tfidf>>

NextPermuted == Next \/ RunPermuted

SpecPermuted == InitAnyOrder /\ [][NextPermuted]_vars

NextTwice == Next \/ RunAgain

SpecTwice == Init /\ [][NextTwice]_vars

-----------------------------------------------------------------------------
(* Vocabulary of the properties.                                           *)

IdsOf(g) == {g[k].msg_id : k \in 1..Len(g)}

InputIds == IdsOf(messages)

(* The groups of gs that hold message id. *)
GroupsHolding(gs, id) == {k \in 1..Len(gs) : id \in IdsOf(gs[k])}

SameGroup(gs, id1, id2) == \E k \in 1..Len(gs) : id1 \in IdsOf(gs[k]) /\ id2 \in IdsOf(gs[k])

Occurrences(gs, id) ==
    LET all == Flatten(gs) IN Cardinality({k \in 1..Len(all) : all[k].msg_id = id})

AfterFilter == pc \in {"assemble", "done", "raised"}

(* The semantic merger's loop has run to its end in this call. *)
SemanticRan ==
    /\ pc \in {"filter", "assemble", "done", "raised"}
    /\ builder.enable_semantic
    /\ Len(reply_groups) >= 2

(* The groups the semantic merger returned. *)
SemanticOutput == IF pc = "filter" THEN groups ELSE prefilter_groups

-----------------------------------------------------------------------------
(* C1.  Partition invariant: the groups that exist just before quality     *)
(* filtering hold every input message id exactly once, whatever the        *)
(* toggles: no message is lost, none is in two groups or twice in one.     *)
C1_Partition ==
    AfterFilter /\ messages # <<>> =>
        /\ \A id \in InputIds : Occurrences(prefilter_groups, id) = 1
        /\ \A k \in 1..Len(prefilter_groups) : IdsOf(prefilter_groups[k]) \subseteq InputIds

(* Three messages reached the filter in fewer groups than the grouper made, *)
(* with both merge stages on.                                              *)
C1_Witness ==
    /\ pc = "assemble"
    /\ Len(messages) = 3
    /\ builder.enable_reply_chain /\ builder.enable_semantic
    /\ Len(tw_groups) = 3
    /\ Len(prefilter_groups) = 2

-----------------------------------------------------------------------------
(* C2.  Reply linking merges reply-connected groups: when the payload of a *)
(* message quotes the id of another message of the collection, the two are *)
(* in the same group after the Reply-Chain Linker.                         *)
QuotesIdOf(m, q) ==
    /\ m.xml_content.present /\ m.xml_content.refermsg /\ m.xml_content.parses
    /\ m.xml_content.refer_id # NoneVal
    /\ q.msg_id = "svrid_" \o m.xml_content.refer_id

C2_ReplyLinked ==
    pc \in {"semantic", "sem_loop", "filter", "assemble", "done"} /\ builder.enable_reply_chain =>
        \A m \in Range(messages) : \A q \in Range(messages) :
            m # q /\ QuotesIdOf(m, q) => SameGroup(reply_groups, m.msg_id, q.msg_id)

-----------------------------------------------------------------------------
(* C3.  Adaptive window formula.  With density = message_count /           *)
(* span_minutes (message_count when the span is zero), the stated window   *)
(* is 0.5, 1, 1.5 or 2 times base_window as density > 2, 1 < density <= 2, *)
(* 0.5 < density <= 1, or otherwise.  StatedWindowTwice is twice that      *)
(* window, so that it is an integer.                                       *)
StatedWindowTwice(base_window, g) ==
    LET message_count == Len(g)
        span_seconds == g[Len(g)].timestamp - g[1].timestamp
        \* density > c/d, for density = message_count * 60 / span_seconds
        DensityAbove(c, d) ==
            IF span_seconds = 0 THEN message_count * d > c
            ELSE message_count * 60 * d > c * span_seconds
    IN  IF DensityAbove(2, 1) THEN base_window
        ELSE IF DensityAbove(1, 1) THEN 2 * base_window
        ELSE IF DensityAbove(1, 2) THEN 3 * base_window
        ELSE 4 * base_window

(* A window has just been computed with adaptive windowing on. *)
WindowComputed ==
    /\ pc = "tw_loop"
    /\ window_group # <<>>
    /\ builder.enable_adaptive_window

(* C3 as stated: the formula gives the window for a current group of every *)
(* size >= 1.                                                              *)
C3_AsStated ==
    WindowComputed => 2 * window = StatedWindowTwice(builder.time_window, window_group)

(* C3 amended: the window is base_window for a current group of one        *)
(* message, and the stated multiple of base_window, truncated to an        *)
(* integer, for a current group of two or more messages.                   *)
C3_AdaptiveWindow ==
    WindowComputed =>
        window = IF Len(window_group) < 2 THEN builder.time_window
                 ELSE StatedWindowTwice(builder.time_window, window_group) \div 2

(* The window was computed, from a group of two messages or more, in each  *)
(* of the four density classes; here in the lowest, with an odd base.      *)
C3_Witness ==
    /\ WindowComputed
    /\ Len(window_group) >= 2
    /\ builder.time_window = DEFAULT_TIME_WINDOW + 1
    /\ window = (3 * builder.time_window) \div 2

-----------------------------------------------------------------------------
(* C4.  Window invariant: in every group of the Time-Window Grouper each   *)
(* message after the first has a gap to the message before it that is <=   *)
(* the window computed from the group as it was before the message was     *)
(* appended, and a new group starts exactly when the gap is > that window. *)
GrouperReturned == pc \notin {"start", "tw_loop"} /\ messages # <<>>

C4_WindowInvariant ==
    GrouperReturned =>
        /\ \A k \in 1..Len(tw_groups) : \A n \in 2..Len(tw_groups[k]) :
              tw_groups[k][n].timestamp - tw_groups[k][n - 1].timestamp
                  <= GetAdaptiveWindow(builder, SubSeq(tw_groups[k], 1, n - 1))
        /\ \A k \in 2..Len(tw_groups) :
              tw_groups[k][1].timestamp - Last(tw_groups[k - 1]).timestamp
                  > GetAdaptiveWindow(builder, tw_groups[k - 1])

(* A message was appended at a gap equal to a shortened window, and a new  *)
(* group was started after it. *)
C4_Witness ==
    /\ GrouperReturned
    /\ builder.enable_adaptive_window
    /\ Len(tw_groups) = 2
    /\ Len(tw_groups[1]) = 2
    /\ tw_groups[1][2].timestamp - tw_groups[1][1].timestamp > 0
    /\ GetAdaptiveWindow(builder, tw_groups[1]) < builder.time_window

-----------------------------------------------------------------------------
(* C5.  Semantic greedy merge rule: indices are visited in ascending       *)
(* order; an index consumed by an earlier one is skipped; an unconsumed    *)
(* index i gives one output group made of group i and exactly the later,   *)
(* still unconsumed indices j with similarity[i][j] >= semantic_threshold. *)
(* Owner[j] is the index whose output group input group j lands in by that *)
(* rule: the first unconsumed earlier index similar enough, else j itself. *)
Owner[j \in 1..Len(reply_groups)] ==
    LET pullers == {a \in 1..(j - 1) :
                       Owner[a] = a /\ similarities[a][j] >= builder.semantic_threshold}
    IN  IF pullers = {} THEN j ELSE CHOOSE a \in pullers : \A b \in pullers : a <= b

Anchors == {j \in 1..Len(reply_groups) : Owner[j] = j}

(* The k-th anchor in ascending order. *)
AnchorAt(k) == CHOOSE a \in Anchors : Cardinality({b \in Anchors : b <= a}) = k

C5_GreedyMerge ==
    SemanticRan =>
        /\ Len(SemanticOutput) = Cardinality(Anchors)
        /\ \A k \in 1..Len(SemanticOutput) :
              /\ IdsOf(SemanticOutput[k]) =
                     UNION {IdsOf(reply_groups[j]) :
                                j \in {n \in 1..Len(reply_groups) : Owner[n] = AnchorAt(k)}}
              /\ Len(SemanticOutput[k]) = Cardinality(IdsOf(SemanticOutput[k]))
        /\ \A j \in 1..Len(reply_groups) : \A id \in IdsOf(reply_groups[j]) :
              Cardinality(GroupsHolding(SemanticOutput, id)) = 1

(* Of three groups the first took the third at a similarity equal to the   *)
(* threshold and left the second, which then made a group of its own.      *)
C5_Witness ==
    /\ SemanticRan
    /\ pc = "filter"
    /\ Len(reply_groups) = 3
    /\ builder.semantic_threshold > 0
    /\ similarities[1][3] = builder.semantic_threshold
    /\ similarities[1][2] < builder.semantic_threshold
    /\ similarities[2][3] >= builder.semantic_threshold
    /\ Len(groups) = 2

-----------------------------------------------------------------------------
(* C6.  Semantic merge is not transitive.                                  *)

GroupIndices == 1..Len(reply_groups)

(* The output group of the semantic merger that holds input group j. *)
OutOf(j) ==
    CHOOSE k \in 1..Len(SemanticOutput) : IdsOf(reply_groups[j]) \subseteq IdsOf(SemanticOutput[k])

(* Input group j was not consumed by an earlier index: it is the lowest    *)
(* index of its output group.                                              *)
Unconsumed(j) == \A a \in GroupIndices : OutOf(a) = OutOf(j) => j <= a

Similar(a, b) == similarities[a][b] >= builder.semantic_threshold

(* C6 as stated: for three groups in any index order, the first similar to *)
(* the second and the second to the third but the first not to the third,  *)
(* the first and the third are in different output groups.                 *)
C6_AsStated ==
    SemanticRan =>
        \A a \in GroupIndices : \A b \in GroupIndices : \A c \in GroupIndices :
            /\ a # b /\ b # c /\ a # c
            /\ Similar(a, b) /\ Similar(b, c) /\ ~Similar(a, c)
            => OutOf(a) # OutOf(c)

(* C6 amended: for groups i < j < k with i not consumed by an earlier      *)
(* index, where similarity(i,j) and similarity(j,k) reach the threshold    *)
(* and similarity(i,k) does not, i and k are in different output groups;   *)
(* and a consumed group pulls nothing in: every member of an output group  *)
(* other than its lowest index is similar to that lowest index itself.     *)
C6_NotTransitive ==
    SemanticRan =>
        /\ \A a \in GroupIndices : \A b \in GroupIndices : \A c \in GroupIndices :
              /\ a < b /\ b < c
              /\ Unconsumed(a)
              /\ Similar(a, b) /\ Similar(b, c) /\ ~Similar(a, c)
              => OutOf(a) # OutOf(c)
        /\ \A a \in GroupIndices : \A c \in GroupIndices :
              Unconsumed(a) /\ a # c /\ OutOf(a) = OutOf(c) => Similar(a, c)

(* Three groups, 1 similar to 2 and 2 to 3 but 1 not to 3: 1 and 2 were    *)
(* merged and 3 left alone.                                                *)
C6_Witness ==
    /\ SemanticRan
    /\ pc = "filter"
    /\ Len(reply_groups) = 3
    /\ Similar(1, 2) /\ Similar(2, 3) /\ ~Similar(1, 3)
    /\ OutOf(1) = OutOf(2)
    /\ OutOf(3) # OutOf(1)

-----------------------------------------------------------------------------
(* C7.  Filter correctness: the Quality Filter keeps exactly the groups of *)
(* at least min_messages messages, in their order and unchanged; so every  *)
(* topic has message_count >= min_messages, and a message whose final      *)
(* group is smaller than min_messages is in no topic.                      *)
LargeEnough == {k \in 1..Len(prefilter_groups) :
                    Len(prefilter_groups[k]) >= builder.min_messages}

(* The n-th of the groups that are large enough. *)
LargeEnoughAt(n) ==
    CHOOSE k \in LargeEnough : Cardinality({a \in LargeEnough : a <= k}) = n

C7_FilterCorrect ==
    AfterFilter /\ messages # <<>> =>
        /\ Len(groups) = Cardinality(LargeEnough)
        /\ \A n \in 1..Len(groups) : groups[n] = prefilter_groups[LargeEnoughAt(n)]
        /\ pc = "done" =>
              /\ Len(topics) = Len(groups)
              /\ \A n \in 1..Len(topics) :
                    /\ topics[n].message_count >= builder.min_messages
                    /\ topics[n].message_count = Len(groups[n])
                    /\ topics[n].message_ids = [k \in 1..Len(groups[n]) |-> groups[n][k].msg_id]
              /\ \A k \in 1..Len(prefilter_groups) :
                    Len(prefilter_groups[k]) < builder.min_messages =>
                        \A id \in IdsOf(prefilter_groups[k]) : \A n \in 1..Len(topics) :
                            id \notin Range(topics[n].message_ids)

(* A single isolated message was dropped and a group of exactly            *)
(* min_messages messages after it became the only topic.                   *)
C7_Witness ==
    /\ pc = "done"
    /\ builder.min_messages = MIN_MESSAGES_PER_TOPIC
    /\ Len(prefilter_groups) = 2
    /\ Len(prefilter_groups[1]) = 1
    /\ Len(prefilter_groups[2]) = builder.min_messages
    /\ Len(topics) = 1

-----------------------------------------------------------------------------
-----------------------------------------------------------------------------
(* C9.  No exception escapes run: whatever the messages' content and       *)
(* payload, no exception raised in a stage propagates out of run.          *)
C9_NoExceptionEscapes == pc # "raised"

-----------------------------------------------------------------------------
(* C10.  Semantic fallback causes no merges.                               *)

Fallback == SemanticRan /\ sem_fallback \in {"few texts", "raised"}

EmptyText(k) == Strip(group_texts[k]) = ""

NoMergeOnFallback ==
    /\ Fallback =>
          /\ similarities = Zeros(Len(reply_groups))
          /\ SemanticOutput = reply_groups
    /\ \A k \in GroupIndices :
          EmptyText(k) =>
              /\ \A a \in GroupIndices : similarities[k][a] = 0 /\ similarities[a][k] = 0
              /\ \E n \in 1..Len(SemanticOutput) : SemanticOutput[n] = reply_groups[k]

(* C10 as stated: when vectorization fails or fewer than two groups have a *)
(* non-empty text the matrix is all zeros and no groups are merged, for    *)
(* every semantic_threshold from 0 to 1; and a group with an empty text    *)
(* has a zero row and column and is never merged.                          *)
C10_AsStated == SemanticRan => NoMergeOnFallback

(* C10 amended: the same for every semantic_threshold above 0. *)
C10_NoMergeOnFallback ==
    SemanticRan /\ builder.semantic_threshold > 0 => NoMergeOnFallback

(* The backend raised on the texts of two groups, a third group had an     *)
(* empty text, and the three groups left the merger as they entered it.    *)
C10_Witness ==
    /\ SemanticRan
    /\ pc = "filter"
    /\ builder.semantic_threshold > 0
    /\ sem_fallback = "raised"
    /\ Len(reply_groups) = 3
    /\ \E k \in GroupIndices : EmptyText(k)
    /\ groups = reply_groups

-----------------------------------------------------------------------------
(* C11.  Idempotence of reply linking: the Reply-Chain Linker applied to   *)
(* its own output yields the same partition of the messages into groups.   *)

PartitionOf(gs) == {IdsOf(gs[k]) : k \in 1..Len(gs)}

SamePartition(gs1, gs2) == Len(gs1) = Len(gs2) /\ PartitionOf(gs1) = PartitionOf(gs2)

(* The linker has run in this call. *)
LinkerRan ==
    /\ pc \in {"semantic", "sem_loop", "filter", "assemble", "done", "raised"}
    /\ builder.enable_reply_chain

-----------------------------------------------------------------------------
(* C12.  Group invariant across stages: at the output of every stage every *)
(* group is non-empty and sorted ascending by timestamp, and groups are    *)
(* merged, never split: two messages the time-window grouper put in one    *)
(* group are in one group after reply linking and after semantic merging,  *)
(* and the filter keeps or drops them together.                            *)

WellFormed(gs) ==
    \A k \in 1..Len(gs) :
        /\ gs[k] # <<>>
        /\ \A a \in 1..Len(gs[k]) : \A b \in a..Len(gs[k]) :
              gs[k][a].timestamp <= gs[k][b].timestamp

(* The pairs of message ids the grouper put in one group. *)
GroupedPairs ==
    UNION {IdsOf(tw_groups[k]) \X IdsOf(tw_groups[k]) : k \in 1..Len(tw_groups)}

Together(gs) == \A p \in GroupedPairs : SameGroup(gs, p[1], p[2])

Unsplit(gs) ==
    \A p \in GroupedPairs : \A k \in 1..Len(gs) :
        p[1] \in IdsOf(gs[k]) <=> p[2] \in IdsOf(gs[k])

-----------------------------------------------------------------------------
(* C13.  Unusable references add no relation and no error: a message whose *)
(* payload is absent, fails to parse, or quotes an id that no message of   *)
(* the collection has, contributes no reply relation, and the linker       *)
(* returns the groups it would return if the message had no payload.       *)

FailsToParse(m) ==
    m.xml_content.present /\ m.xml_content.refermsg /\ ~m.xml_content.parses

QuotesOutside(m) ==
    ExtractQuotedMsgId(m) # NoneVal /\ ExtractQuotedMsgId(m) \notin InputIds

Unusable(m) == ~m.xml_content.present \/ FailsToParse(m) \/ QuotesOutside(m)

(* The groups with the payload of message id taken away. *)
WithoutPayload(gs, id) ==
    [k \in 1..Len(gs) |-> [n \in 1..Len(gs[k]) |->
        IF gs[k][n].msg_id = id THEN [gs[k][n] EXCEPT !.xml_content = NoPayload]
        ELSE gs[k][n]]]

GroupIds(gs) == [k \in 1..Len(gs) |-> [n \in 1..Len(gs[k]) |-> gs[k][n].msg_id]]

-----------------------------------------------------------------------------
(* C14.  Structured-then-fallback extraction.                              *)

(* The quoted id as stated: the id of the structured block when the        *)
(* structured attempt yields one, else the pattern's match, if any.        *)
StatedQuotedMsgId(m) ==
    LET x == m.xml_content IN
    IF ~x.present THEN NoneVal
    ELSE IF x.refermsg /\ x.parses /\ x.refer_id # NoneVal THEN "svrid_" \o x.refer_id
    ELSE IF x.pattern_id # NoneVal THEN "svrid_" \o x.pattern_id
    ELSE NoneVal

(* C14 as stated: the pattern match is applied whenever the structured     *)
(* attempt yields no id: block missing, block without id, or the           *)
(* structured parse failing.                                               *)
C14_AsStated ==
    LinkerRan =>
        \A m \in Range(messages) : ExtractQuotedMsgId(m) = StatedQuotedMsgId(m)

(* C14 amended: the pattern match is applied when the block is missing or  *)
(* has no id; when the structured parse fails no id is returned, whatever  *)
(* the pattern would match.                                                *)
C14_StructuredThenFallback ==
    LinkerRan =>
        \A m \in Range(messages) :
            ExtractQuotedMsgId(m) = IF FailsToParse(m) THEN NoneVal
                                    ELSE StatedQuotedMsgId(m)

(* The linker ran on a collection with a block missing, a block without an *)
(* id and a block that fails to parse, the pattern matching in all three.  *)
C14_Witness ==
    /\ LinkerRan
    /\ \E m \in Range(messages) : m.xml_content = Bare(Digit[1])
    /\ \E m \in Range(messages) : m.xml_content = BlockWithoutId(Digit[1])
    /\ \E m \in Range(messages) : m.xml_content = Malformed(Digit[1])

-----------------------------------------------------------------------------
(* C15.  Empty input short-circuit: run on an empty collection returns an  *)
(* empty topic list and no stage is invoked: none of the grouper, linker,  *)
(* merger, filter or assembly is entered and none of their results exists. *)

NoStageInvoked ==
    /\ groups = <<>> /\ current_group = <<>> /\ tw_groups = <<>>
    /\ reply_groups = <<>>
    /\ group_texts = <<>> /\ similarities = <<>> /\ merged = <<>> /\ final_groups = <<>>
    /\ prefilter_groups = <<>>
    /\ tfidf = <<>>

C15_EmptyInput ==
    messages = <<>> =>
        /\ pc \in {"start", "done"}
        /\ NoStageInvoked
        /\ pc = "done" => topics = <<>>

(* run has returned on an empty collection. *)
C15_Witness == messages = <<>> /\ pc = "done" /\ sorted_messages = <<>>

-----------------------------------------------------------------------------
(* C16.  Disabled or degenerate merge stages are pass-through: with        *)
(* enable_reply_chain false the groups entering the semantic stage are the *)
(* grouper's output; with enable_semantic false, or fewer than two groups  *)
(* reaching the merger, the groups entering the filter are the merger's    *)
(* input, in membership and order.                                         *)
C16_PassThrough ==
    /\ (/\ pc \in {"semantic", "sem_loop", "filter", "assemble", "done", "raised"}
        /\ ~builder.enable_reply_chain)
       => reply_groups = tw_groups
    /\ (/\ pc \in {"filter", "assemble", "done", "raised"}
        /\ (~builder.enable_semantic \/ Len(reply_groups) < 2))
       => SemanticOutput = reply_groups

(* Both merge stages were off and two groups went through them. *)
C16_Witness ==
    /\ pc = "filter"
    /\ ~builder.enable_reply_chain
    /\ ~builder.enable_semantic
    /\ Len(tw_groups) >= 2
    /\ \E k \in 1..Len(tw_groups) : Len(tw_groups[k]) >= 2

-----------------------------------------------------------------------------
(* C17.  Fixed-window fallback: with enable_adaptive_window false the      *)
(* window is base_window for every candidate message, and the time-window  *)
(* groups are the maximal runs of the sorted sequence in which every       *)
(* adjacent gap is <= base_window.                                         *)

(* gs cuts the sequence ms into its maximal runs of adjacent gaps <= w.    *)
MaximalRuns(gs, ms, w) ==
    /\ Flatten(gs) = ms
    /\ \A k \in 1..Len(gs) :
          /\ gs[k] # <<>>
          /\ \A n \in 2..Len(gs[k]) : gs[k][n].timestamp - gs[k][n - 1].timestamp <= w
    /\ \A k \in 2..Len(gs) : gs[k][1].timestamp - Last(gs[k - 1]).timestamp > w

C17_FixedWindow ==
    ~builder.enable_adaptive_window =>
        /\ (pc = "tw_loop" /\ window_group # <<>>) => window = builder.time_window
        /\ GrouperReturned => MaximalRuns(tw_groups, sorted_messages, builder.time_window)

(* With the flag off the grouper returned two groups, the first of two     *)
(* messages whose density would have halved the window, the second         *)
(* starting at a gap above the base window.                                *)
C17_Witness ==
    /\ ~builder.enable_adaptive_window
    /\ pc = "reply"
    /\ Len(tw_groups) = 2
    /\ Len(tw_groups[1]) = 2
    /\ 2 * TimeSpan(tw_groups[1]) < 60

-----------------------------------------------------------------------------
(* C18.  Topic title rule: the title is the content of the first message   *)
(* of the group whose trimmed content is non-empty and not a media         *)
(* placeholder, with whitespace collapsed, cut to its first 50 characters  *)
(* and an ellipsis exactly when it is longer than 50 characters; the fixed *)
(* fallback string when the group has no such message.                     *)

TitlePlaceholders == {"[image]", "[voice]", "[video]", "[emoji]"}

Titled(m) == Strip(m.content) # "" /\ Strip(m.content) \notin TitlePlaceholders

Collapsed(c) == Join(" ", SplitWords(c))

StatedTitle(g) ==
    IF \E k \in 1..Len(g) : Titled(g[k])
    THEN LET k == CHOOSE k \in 1..Len(g) :
                      Titled(g[k]) /\ \A n \in 1..(k - 1) : ~Titled(g[n])
             c == Collapsed(g[k].content)
         IN  IF Len(c) > 50 THEN SubSeq(c, 1, 50) \o "..." ELSE c
    ELSE "unknown topic"

C18_TitleRule ==
    pc = "done" =>
        \A k \in 1..Len(topics) :
            /\ topics[k].title = StatedTitle(groups[k])
            /\ Len(topics[k].title) <= 53

(* A topic whose first message is a padded placeholder and whose title is  *)
(* the 51 characters of the second, cut to 50 and an ellipsis.             *)
C18_Witness ==
    /\ pc = "done"
    /\ Len(topics) = 1
    /\ groups[1][1].content = " [voice] "
    /\ topics[1].title = Repeat("x", 50) \o "..."

-----------------------------------------------------------------------------
(* C19.  Conclusion selection: for a group of more than one message the    *)
(* conclusion is built from the first five substantive messages of the     *)
(* whole group, each content cut to 100 characters, joined with the        *)
(* separator and cut to 300 characters and an ellipsis when longer; a      *)
(* placeholder among the first five messages does not reduce the number of *)
(* substantive messages used while later substantive messages exist.       *)

(* What the conclusion counts as a substantive message. *)
Substantive(m) ==
    /\ m.content # NoneVal
    /\ m.content # ""
    /\ Strip(m.content) \notin {"[image]", "[voice]", "[video]"}

FirstFive(s) == SubSeq(s, 1, IF Len(s) < 5 THEN Len(s) ELSE 5)

StatedConclusion(g) ==
    LET used == FirstFive(SelectSeq(g, Substantive))
        joined == Join(" | ", [k \in 1..Len(used) |-> Strip(Prefix(used[k].content, 100))])
    IN  IF Len(joined) > 300 THEN SubSeq(joined, 1, 300) \o "..." ELSE joined

C19_AsStated ==
    pc = "done" =>
        \A k \in 1..Len(topics) :
            (Len(groups[k]) > 1 /\ \E n \in 1..Len(groups[k]) : Substantive(groups[k][n]))
            => topics[k].conclusion = StatedConclusion(groups[k])

-----------------------------------------------------------------------------
(* C20.  Conclusion nullability: the conclusion is null exactly when the   *)
(* group has fewer than two messages or every message considered (the      *)
(* first five) is empty, whitespace-only or a media placeholder; otherwise *)
(* it is a non-empty string.                                               *)

HasText(m) ==
    /\ m.content # NoneVal
    /\ Strip(m.content) # ""
    /\ Strip(m.content) \notin {"[image]", "[voice]", "[video]"}

C20_AsStated ==
    pc = "done" =>
        \A k \in 1..Len(topics) :
            LET considered == FirstFive(groups[k])
                nothing == \A n \in 1..Len(considered) : ~HasText(considered[n])
            IN  /\ topics[k].conclusion = NoneVal <=> (Len(groups[k]) < 2 \/ nothing)
                /\ topics[k].conclusion # NoneVal => topics[k].conclusion # ""

-----------------------------------------------------------------------------
(* C21.  Topic field consistency: for every topic, start_time is the       *)
(* minimum and end_time the maximum timestamp of the group, initiator is   *)
(* the sender name of the group's earliest message, participants is the    *)
(* set of sender names of the group, message_ids lists the group's         *)
(* messages in ascending timestamp order, and message_count is the length  *)
(* of message_ids and of the messages snapshot.                            *)

(* The input message with the given id. *)
InputMessage(id) == CHOOSE m \in Range(messages) : m.msg_id = id

TopicMembers(t) == {InputMessage(t.message_ids[n]) : n \in 1..Len(t.message_ids)}

C21_FieldConsistency ==
    pc = "done" =>
        \A k \in 1..Len(topics) :
            LET t == topics[k]
                members == TopicMembers(t)
            IN  /\ t.message_ids = [n \in 1..Len(groups[k]) |-> groups[k][n].msg_id]
                /\ \A m \in members : t.start_time <= m.timestamp /\ m.timestamp <= t.end_time
                /\ \E m \in members : m.timestamp = t.start_time
                /\ \E m \in members : m.timestamp = t.end_time
                /\ t.start_time <= t.end_time
                /\ \E m \in members : m.timestamp = t.start_time /\ m.sender_name = t.initiator
                /\ t.initiator = InputMessage(t.message_ids[1]).sender_name
                /\ t.participants = {m.sender_name : m \in members}
                /\ \A a \in 1..Len(t.message_ids) : \A b \in a..Len(t.message_ids) :
                      InputMessage(t.message_ids[a]).timestamp
                          <= InputMessage(t.message_ids[b]).timestamp
                /\ t.message_count = Len(t.message_ids)
                /\ t.message_count = Len(t.messages)

(* A topic of three messages by two senders, over more than one instant.   *)
C21_Witness ==
    /\ pc = "done"
    /\ \E k \in 1..Len(topics) :
          /\ topics[k].message_count = 3
          /\ Cardinality(topics[k].participants) = 2
          /\ topics[k].start_time < topics[k].end_time

-----------------------------------------------------------------------------
(* C22.  Window bounds.                                                    *)

(* Neighbours of the sorted sequence with a gap of at most half the base   *)
(* window are in one time-window group, and neighbours with a gap above    *)
(* twice the base window are in different ones; two messages so far apart  *)
(* that nothing merged give no topic at min_messages = 2.                  *)
GapConsequences ==
    /\ GrouperReturned =>
          \A n \in 2..Len(sorted_messages) :
              LET prev == sorted_messages[n - 1]
                  curr == sorted_messages[n]
                  gap == curr.timestamp - prev.timestamp
              IN  /\ 2 * gap <= builder.time_window
                        => SameGroup(tw_groups, prev.msg_id, curr.msg_id)
                  /\ gap > 2 * builder.time_window
                        => ~SameGroup(tw_groups, prev.msg_id, curr.msg_id)
    /\ (/\ pc = "done"
        /\ Len(sorted_messages) = 2
        /\ sorted_messages[2].timestamp - sorted_messages[1].timestamp
               > 2 * builder.time_window
        /\ builder.min_messages = 2
        /\ Len(prefilter_groups) = 2)
       => topics = <<>>

(* C22 as stated: the window is never below half of base_window and never  *)
(* above twice base_window, with the consequences for the gaps.            *)
C22_AsStated ==
    /\ (pc = "tw_loop" /\ window_group # <<>>) =>
          2 * window >= builder.time_window /\ window <= 2 * builder.time_window
    /\ GapConsequences

(* C22 amended: the window is never below half of base_window rounded down *)
(* to a whole number of seconds and never above twice base_window, with    *)
(* the same consequences for the gaps.                                     *)
C22_WindowBounds ==
    /\ (pc = "tw_loop" /\ window_group # <<>>) =>
          window >= builder.time_window \div 2 /\ window <= 2 * builder.time_window
    /\ GapConsequences

(* The burst at t = 0, 5, 9 with adaptive windowing on: the window was     *)
(* halved for the third message and the three are one group.               *)
C22_Witness ==
    /\ pc = "reply"
    /\ builder.enable_adaptive_window
    /\ window = builder.time_window \div 2
    /\ Len(tw_groups) = 1
    /\ [n \in 1..Len(tw_groups[1]) |-> tw_groups[1][n].timestamp] = <<0, 5, 9>>

-----------------------------------------------------------------------------
(* C23.  No look-ahead (prefix stability): for the sorted sequence S and   *)
(* every prefix P of it, every group of the grouping of P except its last  *)
(* is a group of the grouping of S, and the last group of P's grouping is  *)
(* a prefix of a group of S's grouping.                                    *)

IsPrefix(s, t) == Len(s) <= Len(t) /\ SubSeq(t, 1, Len(s)) = s

C23_PrefixStable ==
    GrouperReturned =>
        /\ tw_groups = GroupByTimeWindow(builder, sorted_messages)
        /\ \A p \in 1..Len(sorted_messages) :
              LET of_prefix == GroupByTimeWindow(builder, SubSeq(sorted_messages, 1, p))
                  last == Len(of_prefix)
              IN  /\ last <= Len(tw_groups)
                  /\ \A k \in 1..(last - 1) : of_prefix[k] = tw_groups[k]
                  /\ IsPrefix(of_prefix[last], tw_groups[last])

(* The grouper returned two groups for three messages with adaptive        *)
(* windowing on: the prefix of two messages is grouped as a whole group    *)
(* and the third message opened the next.                                  *)
C23_Witness ==
    /\ pc = "reply"
    /\ builder.enable_adaptive_window
    /\ Len(sorted_messages) = 3
    /\ Len(tw_groups) = 2
    /\ Len(tw_groups[1]) = 2
    /\ GroupByTimeWindow(builder, SubSeq(sorted_messages, 1, 2)) = <<tw_groups[1]>>

-----------------------------------------------------------------------------
-----------------------------------------------------------------------------
(* C25.  One notion of media placeholder: the title, the conclusion and    *)
(* the representative text classify a content identically: a message the  *)
(* title skips is left out of the conclusion and of the representative     *)
(* text, and a message the title takes is in both.  Contents that are     *)
(* empty once trimmed are no placeholders and are left aside.              *)

(* The title passes over m: a group of m alone gets the fallback title. *)
SkippedByTitle(m) == GenerateTitle(<<m>>).title = "unknown topic"

(* m is not among the messages the conclusion is built from. *)
ExcludedFromConclusion(m) == ContentMessages(<<m>>) = <<>>

(* m contributes nothing to the representative text of its group. *)
ExcludedFromText(m) == GroupContents(<<m>>) = <<>>

C25_AsStated ==
    pc = "done" =>
        \A k \in 1..Len(topics) : \A n \in 1..Len(groups[k]) :
            LET m == groups[k][n]
            IN  (m.content # NoneVal /\ Strip(m.content) # "") =>
                    /\ SkippedByTitle(m) <=> ExcludedFromConclusion(m)
                    /\ SkippedByTitle(m) <=> ExcludedFromText(m)

-----------------------------------------------------------------------------
(* C26.  The Reply-Chain Linker never changes the partition: a relation is *)
(* recorded only when the quoted id is in the replying message's own       *)
(* group, so every union joins a group with itself and the groups the      *)
(* linker returns are the groups it was given, members and order, for any  *)
(* input.                                                                  *)
C26_AsStated ==
    LinkerRan => reply_groups = tw_groups

UniqueIds(ms) == \A a, b \in 1..Len(ms) : ms[a].msg_id = ms[b].msg_id => a = b

(* The same for every input whose message ids are unique; every relation   *)
(* recorded has both its ids in one group.                                 *)
C26_PartitionKept ==
    LinkerRan =>
        /\ \A k \in 1..Len(tw_groups) :
              \A r \in Range(GroupRelations(tw_groups[k], 1)) :
                  r[1] \in IdsOf(tw_groups[k]) /\ r[2] \in IdsOf(tw_groups[k])
        /\ UniqueIds(messages) => reply_groups = tw_groups

(* The linker was given two groups or more of messages with unique ids,    *)
(* found a reply relation, went through its union-find and returned the    *)
(* groups as they were.                                                    *)
C26_Witness ==
    /\ LinkerRan
    /\ UniqueIds(messages)
    /\ Len(tw_groups) >= 2
    /\ ExtractReplyRelations(tw_groups) # <<>>
    /\ reply_groups = tw_groups

-----------------------------------------------------------------------------
(* C27.  Filtering happens only after merging: the grouper, the linker and *)
(* the merger each hand on every input message, whatever the size of its   *)
(* group; the min_messages test is applied to the groups the merger        *)
(* returned, so that a time-window group smaller than min_messages is in a *)
(* topic whenever the merged group that holds it has min_messages messages *)
(* or more.                                                                *)
C27_FilterAfterMerging ==
    /\ GrouperReturned => IdsOf(Flatten(tw_groups)) = InputIds
    /\ pc \in {"semantic", "sem_loop", "filter"} /\ messages # <<>> =>
           IdsOf(Flatten(reply_groups)) = InputIds
    /\ pc = "filter" => IdsOf(Flatten(groups)) = InputIds
    /\ AfterFilter /\ messages # <<>> =>
           /\ IdsOf(Flatten(prefilter_groups)) = InputIds
           /\ groups = SelectSeq(prefilter_groups,
                                 LAMBDA g : Len(g) >= builder.min_messages)
    /\ pc = "done" =>
           \A k \in 1..Len(tw_groups) : \A n \in 1..Len(prefilter_groups) :
               (/\ IdsOf(tw_groups[k]) \subseteq IdsOf(prefilter_groups[n])
                /\ Len(prefilter_groups[n]) >= builder.min_messages)
               => \E t \in 1..Len(topics) :
                      IdsOf(tw_groups[k]) \subseteq Range(topics[t].message_ids)

(* A run returned a topic that holds a time-window group of fewer than     *)
(* min_messages messages, the last one the grouper made.                   *)
C27_Witness ==
    /\ pc = "done"
    /\ tw_groups # <<>>
    /\ Len(Last(tw_groups)) < builder.min_messages
    /\ \E t \in 1..Len(topics) :
          IdsOf(Last(tw_groups)) \subseteq Range(topics[t].message_ids)

-----------------------------------------------------------------------------
(* C28.  Output order: the topics run returns are in non-decreasing order  *)
(* of start_time; after the linker and after the merger the groups are in  *)
(* the order of their earliest messages, a merged group standing where the *)
(* first of the groups it was made of stood.                               *)

Earliest(g) == CHOOSE t \in {g[k].timestamp : k \in 1..Len(g)} :
                   \A k \in 1..Len(g) : t <= g[k].timestamp

ByEarliest(gs) == \A a \in 1..Len(gs) : \A b \in a..Len(gs) : Earliest(gs[a]) <= Earliest(gs[b])

(* The index in before of the first group that went into group g of a      *)
(* stage's output.                                                         *)
LowestConstituent(before, g) ==
    CHOOSE k \in 1..Len(before) :
        /\ IdsOf(before[k]) \subseteq IdsOf(g)
        /\ \A n \in 1..(k - 1) : ~(IdsOf(before[n]) \subseteq IdsOf(g))

InOrderOfFirst(before, after) ==
    \A a \in 1..Len(after) : \A b \in (a + 1)..Len(after) :
        LowestConstituent(before, after[a]) < LowestConstituent(before, after[b])

C28_OutputOrder ==
    /\ pc \in {"semantic", "sem_loop", "filter", "assemble", "done", "raised"} =>
          ByEarliest(reply_groups) /\ InOrderOfFirst(tw_groups, reply_groups)
    /\ pc \in {"filter", "assemble", "done", "raised"} =>
          ByEarliest(SemanticOutput) /\ InOrderOfFirst(reply_groups, SemanticOutput)
    /\ pc = "done" =>
          \A a \in 1..Len(topics) : \A b \in a..Len(topics) :
              topics[a].start_time <= topics[b].start_time

(* Two topics were returned, the first made of the first and the third     *)
(* time-window group, the second of the group between them.                *)
C28_Witness ==
    /\ pc = "done"
    /\ Len(tw_groups) = 3
    /\ Len(topics) = 2
    /\ IdsOf(tw_groups[1]) \cup IdsOf(tw_groups[3]) = Range(topics[1].message_ids)
    /\ topics[2].start_time < topics[1].end_time

-----------------------------------------------------------------------------
(* C29.  Input-order independence: when the timestamps of the messages are *)
(* pairwise distinct, run returns the same topics, with the same ids, the  *)
(* same member lists and in the same order, for the collection in any      *)
(* order.                                                                  *)

DistinctTimestamps(ms) ==
    \A a, b \in 1..Len(ms) : ms[a].timestamp = ms[b].timestamp => a = b

C29_OrderIndependent ==
    (run_no = 2 /\ pc = "done" /\ DistinctTimestamps(messages)) =>
        /\ topics = first_topics
        /\ \A other \in OrdersOf(messages) :
              SortedByTimestamp(other) = sorted_messages

(* The second run, on three messages of distinct timestamps handed over    *)
(* out of order, has returned a topic.                                     *)
C29_Witness ==
    /\ run_no = 2
    /\ pc = "done"
    /\ Len(messages) = 3
    /\ DistinctTimestamps(messages)
    /\ messages # sorted_messages
    /\ topics # <<>>
    /\ topics = first_topics

-----------------------------------------------------------------------------
(* C30.  Topics are disjoint: in the list one run returns for messages of  *)
(* unique ids no message id is in two topics or twice in one, every id     *)
(* listed is the id of an input message, and there are at most as many     *)
(* topics as the number of input messages divided by min_messages, for     *)
(* min_messages of 1 or more.                                              *)

(* The places, topic and position, where id is listed. *)
Listings(id) ==
    UNION {{<<k, n>> : n \in {n \in 1..Len(topics[k].message_ids) :
                                    topics[k].message_ids[n] = id}} :
              k \in 1..Len(topics)}

C30_Disjoint ==
    (pc = "done" /\ UniqueIds(messages) /\ builder.min_messages >= 1) =>
        /\ \A id \in InputIds : Cardinality(Listings(id)) <= 1
        /\ \A k \in 1..Len(topics) : Range(topics[k].message_ids) \subseteq InputIds
        /\ Len(topics) * builder.min_messages <= Len(messages)

(* A run on three messages returned a topic of two groups the merger       *)
(* joined, with as many topics as the three messages allow.                *)
C30_Witness ==
    /\ pc = "done"
    /\ Len(messages) = 3
    /\ builder.enable_semantic
    /\ \E k \in 1..Len(topics) : topics[k].message_count = 2
    /\ Len(tw_groups) = 3
    /\ (Len(topics) + 1) * builder.min_messages > Len(messages)

====
